---- MODULE Spec2Model ----
(***************************************************************************)
(* Driver online-gating flow of the LoadMatrix browser client.             *)
(*                                                                         *)
(* One DriverDashboard instance (pages/driver/DriverDashboard), the        *)
(* LocationPermissionModal it renders, the axios instance of utils/api.js  *)
(* with its response interceptor, and the AuthProvider (handleAuthError,   *)
(* logout).  The browser is a single-threaded event loop: every action     *)
(* below is one macrotask (an effect, a geolocation callback, a timer      *)
(* callback, the continuation of an awaited request, a click) together     *)
(* with the React re-render and effects it causes.  setState on an         *)
(* unmounted component is a no-op; everything else a late callback does    *)
(* (localStorage, setInterval, api.post, toast) still happens.             *)
(*                                                                         *)
(* Not modelled: retryCount, locationStatus and errorMessage of the modal   *)
(* (they only select texts and an icon), the "Enable Location Access"      *)
(* button of the blocked screen (it sets showLocationModal to the value it *)
(* already has), DriverDashboard's getCurrentLocation (defined at lines    *)
(* 310-336, never called), and the wall clock advancing within one page    *)
(* load.  The state of an unmounted component is discarded by React; the   *)
(* model resets it to its initial values.                                  *)
(*                                                                         *)
(* Spec explores one page load within MaxTimers and MaxInFlight; DeepSpec  *)
(* is the same page load with one more of each, which is what two          *)
(* callbacks of one timer in flight at once take.  LiveSpec is Spec with   *)
(* the scheduling under which the driver is said to recover from a blocked *)
(* gate.  Of the buttons of the dashboard content only 'Update Location'   *)
(* is modelled; the order buttons do not touch the gate or the reporter.   *)
(*                                                                         *)
(* Three more specifications share the variables and the interceptor:      *)
(* ManualSpec applies updateLocation to every value of the slot it reads,  *)
(* CustomerSpec is a customer's session (CreateOrder, the expiry of the    *)
(* session, LoginPage and AuthProvider.login), OrdersSpec is the 'My       *)
(* Orders' tab of DriverOrders.  The pages they model are not on screen    *)
(* in Spec, DeepSpec and LiveSpec, and the dashboard is not on screen in   *)
(* CustomerSpec and OrdersSpec.                                            *)
(***************************************************************************)
EXTENDS Integers, FiniteSets, Sequences, TLC

\* ---------------------------------------------------------------- bounds
MaxTimers == 2          \* setInterval handles created in one behaviour
MaxInFlight == 1        \* position requests, POSTs and retry timeouts awaiting their callback

\* ------------------------------------------------------ program constants
sevenDays == 7 * 24 * 60 * 60 * 1000
oneHour == 60 * 60 * 1000
T0 == 2 * sevenDays     \* Date.now() when the page is loaded

\* handles setInterval can return: DeepSpec creates one more than Spec
TimerIds == 1 .. MaxTimers + 1
NoTimer == 0            \* window.driverLocationInterval is null/undefined
NoTime == -1            \* localStorage.getItem(...) === null

\* position.coords of the Geolocation API: two fixes, because the handlers
\* only copy coordinates and a stale fix must be told from a new one
Positions == {[latitude |-> 1, longitude |-> 2], [latitude |-> 3, longitude |-> 4]}
\* the {lat, lng} objects the client builds from them; NoLoc is null
Locations == {[lat |-> p.latitude, lng |-> p.longitude] : p \in Positions}
NoLoc == [lat |-> 0, lng |-> 0]

\* GeolocationPositionError.code
Codes == {"PERMISSION_DENIED", "POSITION_UNAVAILABLE", "TIMEOUT"}
\* outcome of an HTTP request: a status, or 0 when there is no response
Statuses == {200, 401, 500, 0}

\* the closure a modal probe carries: permissionState === 'granted' in the
\* render that issued it, or not
ProbeKinds == [granted : BOOLEAN]
ModalPosts == [loc : Locations, granted : BOOLEAN]

\* routes of the customer's session (App.js): three protected pages and the two
\* pages the interceptor never stores
Paths ==
  {"/customer", "/customer/create-order", "/customer/select-driver", "/login",
   "/register"}
PublicPaths == {"/login", "/register"}

\* CreateOrder: the value '' of a form field
Empty == -1
\* what the customer types: latitudes in degrees, one longitude (pickup and
\* drop lie on one meridian), weights in kg
Latitudes == {0, 1}
Meridian == 72
Weights == {1, 2}
CoordinateFields == {"pickup_lat", "pickup_lng", "drop_lat", "drop_lng"}
EmptyForm ==
  [pickup_lat |-> Empty, pickup_lng |-> Empty, drop_lat |-> Empty, drop_lng |-> Empty,
   material_weight |-> Empty, distance_km |-> Empty, fare_total |-> Empty]
NoOrder == EmptyForm     \* no POST to /customer/orders/simple in this step

\* DriverOrders: the statuses an order can have (getStatusColor, lines 104-116)
OrderStatuses ==
  {"pending", "requested", "accepted", "assigned", "picked", "delivering",
   "delivered", "cancelled"}
NoStatus == ""           \* undefined
NoTransition == [from |-> NoStatus, to |-> NoStatus]

VARIABLES
  slack,               \* timers and operations in flight a behaviour has beyond the bounds
  geo,                 \* 'geolocation' in navigator
  now,                 \* Date.now()
  perm,                \* localStorage driverLocationPermission_<id>
  permTime,            \* localStorage driverLocationPermissionTime_<id>
  storedToken,         \* localStorage token present
  storedUser,          \* localStorage user present
  redirectAfterLogin,  \* localStorage redirectAfterLogin ("" = absent)
  authed,              \* AuthProvider token/user state non-null
  route,               \* window.location.pathname
  redirectPending,     \* handleAuthError's setTimeout is armed
  mounted,             \* the DriverDashboard instance is mounted
  checked,             \* its mount effect has run
  loading,
  fetching,            \* fetchDashboardData is awaiting its responses
  currentLocation,
  locationLoading,     \* updateLocation is awaiting its response
  pendingManual,       \* POSTs of updateLocation unanswered
  showLocationModal,
  locationPermissionGranted,
  dashboardBlocked,
  permissionCheckComplete,
  timers,              \* intervals created and not cleared
  nextTimer,           \* id the next setInterval returns
  intervalHandle,      \* window.driverLocationInterval
  mountProbe,          \* getCurrentPosition of the mount effect in flight
  silentTimeDiff,      \* timeDiff captured by the silent probe's closure
  periodic,            \* per timer: periodic probes in flight
  modalProbes,         \* per ProbeKind: modal probes in flight
  retryPending,        \* retryLocationRequest timeouts armed
  pendingReporter,     \* POSTs of DriverDashboard.sendLocationUpdate unanswered
  pendingModal,        \* per ModalPost: POSTs of the modal unanswered
  permissionState,     \* modal state
  modalLocation,
  activeAtTeardown,    \* history: a timer was active when the dashboard was unmounted
  probedSinceBlocked,  \* history: a modal probe succeeded since the gate last became blocked
  ev,                  \* the step just taken
  toast,               \* toast shown by the step just taken ("" = none)
  request,             \* body POSTed to /driver/location by the step just taken
  loginRedirect,       \* path login()'s setTimeout will load ("" = not armed)
  formData,            \* CreateOrder form state
  fareCalculated,
  orderLoading,        \* handleSubmit is awaiting its response
  orderRequest,        \* body POSTed to /customer/orders/simple by the step just taken
  orderStatus,         \* DriverOrders: status of the order as myOrders shows it
  statusFilter,
  statusPosts,         \* POSTs of updateOrderStatus unanswered
  ordersFetching,      \* fetchOrders calls awaiting their responses
  statusRequest        \* transition requested by the step just taken

envVars == <<slack, geo, now>>
consentVars == <<perm, permTime>>
sessionVars == <<storedToken, storedUser, redirectAfterLogin, authed, route, redirectPending>>
gateVars == <<showLocationModal, locationPermissionGranted, dashboardBlocked, permissionCheckComplete>>
dashVars == <<mounted, checked, loading, fetching, currentLocation>>
timerVars == <<timers, nextTimer, intervalHandle>>
mountProbeVars == <<mountProbe, silentTimeDiff>>
modalVars == <<permissionState, modalLocation>>
manualVars == <<locationLoading, pendingManual>>
\* the state of the pages beside the driver dashboard
customerVars == <<formData, fareCalculated, orderLoading, orderRequest>>
ordersVars == <<orderStatus, statusFilter, statusPosts, ordersFetching, statusRequest>>
pageVars == <<loginRedirect, customerVars, ordersVars>>
vars == <<slack, geo, now, perm, permTime, storedToken, storedUser,
          redirectAfterLogin, authed, route, redirectPending, mounted, checked,
          loading, fetching, currentLocation, locationLoading, pendingManual,
          showLocationModal,
          locationPermissionGranted, dashboardBlocked, permissionCheckComplete,
          timers, nextTimer, intervalHandle, mountProbe, silentTimeDiff,
          periodic, modalProbes, retryPending, pendingReporter, pendingModal,
          permissionState, modalLocation,
          activeAtTeardown, probedSinceBlocked, ev, toast, request,
          loginRedirect, formData, fareCalculated, orderLoading, orderRequest,
          orderStatus, statusFilter, statusPosts, ordersFetching, statusRequest>>

\* ------------------------------------------------------------ derived state
GateState ==
  IF ~permissionCheckComplete THEN "checking"
  ELSE IF dashboardBlocked THEN "blockedNeedsConsent"
  ELSE "open"

\* which of the three return statements of DriverDashboard is on screen
Rendered ==
  IF ~mounted THEN "none"
  ELSE IF loading \/ ~permissionCheckComplete THEN "spinner"
  ELSE IF dashboardBlocked THEN "blocked"
  ELSE "content"

\* a dashboard that renders the modal element without waiting for loading
ModalMounted_NoSpinner == mounted /\ permissionCheckComplete

\* the modal element exists in the tree (blocked and content branches)
ModalMounted == mounted /\ ~loading /\ permissionCheckComplete
\* the modal is on screen
ModalVisible == ModalMounted /\ showLocationModal

\* op: the handler that ran; code: its input; gate: GateState when it started
Event(op, code) == [op |-> op, code |-> code, gate |-> GateState]

BagSize(b) ==
  LET RECURSIVE Sum(_)
      Sum(S) == IF S = {} THEN 0
                ELSE LET x == CHOOSE y \in S : TRUE IN b[x] + Sum(S \ {x})
  IN Sum(DOMAIN b)
BagAdd(b, x) == [b EXCEPT ![x] = @ + 1]
BagDel(b, x) == [b EXCEPT ![x] = @ - 1]

\* asynchronous operations of the reporter and the modal awaiting their callback
InFlight ==
  BagSize(periodic) + BagSize(modalProbes) + retryPending + pendingReporter
    + BagSize(pendingModal) + pendingManual
\* the step stays within the bounds of the model
Bounded == InFlight' <= MaxInFlight + slack

\* ------------------------------------------------------------------- Init
\* consent records an earlier session of the same user can have left behind:
\* none, a grant 2 hours old, a grant exactly 1 hour old, a grant exactly
\* 7 days old, a bare 'denied'
\* (the full probe's error callback writes no timestamp)
StoredRecords ==
  { <<"none", NoTime>>, <<"granted", T0 - 2 * oneHour>>, <<"granted", T0 - oneHour>>,
    <<"granted", T0 - sevenDays>>, <<"denied", NoTime>> }

\* the other pages are not on screen
PagesClosed ==
  /\ loginRedirect = ""
  /\ formData = EmptyForm
  /\ fareCalculated = FALSE
  /\ orderLoading = FALSE
  /\ orderRequest = NoOrder
  /\ orderStatus = NoStatus
  /\ statusFilter = "all"
  /\ statusPosts = 0
  /\ ordersFetching = 0
  /\ statusRequest = NoTransition

Loaded ==
  /\ PagesClosed
  /\ geo \in BOOLEAN
  /\ now = T0
  /\ \E r \in StoredRecords : perm = r[1] /\ permTime = r[2]
  /\ storedToken = TRUE
  /\ storedUser = TRUE
  /\ redirectAfterLogin = ""
  /\ authed = TRUE
  /\ route = "/driver"
  /\ redirectPending = FALSE
  /\ mounted = TRUE
  /\ checked = FALSE
  /\ loading = TRUE
  /\ fetching = FALSE
  /\ currentLocation = NoLoc
  /\ locationLoading = FALSE
  /\ pendingManual = 0
  /\ showLocationModal = FALSE
  /\ locationPermissionGranted = FALSE
  /\ dashboardBlocked = TRUE
  /\ permissionCheckComplete = FALSE
  /\ timers = {}
  /\ nextTimer = 1
  /\ intervalHandle = NoTimer
  /\ mountProbe = "none"
  /\ silentTimeDiff = 0
  /\ periodic = [t \in TimerIds |-> 0]
  /\ modalProbes = [k \in ProbeKinds |-> 0]
  /\ retryPending = 0
  /\ pendingReporter = 0
  /\ pendingModal = [m \in ModalPosts |-> 0]
  /\ permissionState = "requesting"
  /\ modalLocation = NoLoc
  /\ activeAtTeardown = FALSE
  /\ probedSinceBlocked = FALSE
  /\ ev = [op |-> "construct", code |-> "", gate |-> "checking"]
  /\ toast = ""
  /\ request = NoLoc

Init == slack = 0 /\ Loaded
\* the same page load, explored one timer and one operation in flight further
DeepInit == slack = 1 /\ Loaded

\* ------------------------------------------------- fragments of the handlers
\* the {lat, lng} object every success callback builds from position.coords
Location(position) == [lat |-> position.latitude, lng |-> position.longitude]

\* a request body with the two coordinates exchanged
PostBody_Swapped(location) == [lat |-> location.lng, lng |-> location.lat]

\* api.post('/driver/location', {lat: location.lat, lng: location.lng})
PostBody(location) == [lat |-> location.lat, lng |-> location.lng]

\* DriverDashboard.sendLocationUpdate up to its await
sendLocationUpdate(location) ==
  /\ pendingReporter' = pendingReporter + 1
  /\ request' = PostBody(location)

startLiveLocationTracking(initialLocation) ==
  /\ sendLocationUpdate(initialLocation)
  /\ nextTimer <= MaxTimers + slack
  /\ timers' = timers \cup {nextTimer}
  /\ nextTimer' = nextTimer + 1
  /\ intervalHandle' = nextTimer

\* the four setState calls of the gate; no-ops once the component is gone
SetGate(show, granted, blocked, complete) ==
  IF mounted
  THEN /\ showLocationModal' = show
       /\ locationPermissionGranted' = granted
       /\ dashboardBlocked' = blocked
       /\ permissionCheckComplete' = complete
  ELSE UNCHANGED gateVars

\* a success callback that forgets to store the position it was given
SetCurrentLocation_Dropped(location) ==
  UNCHANGED currentLocation

SetCurrentLocation(location) ==
  currentLocation' = IF mounted THEN location ELSE currentLocation

\* effect on [locationPermissionGranted]: fetchDashboardData when it is true
FetchEffect ==
  fetching' = (fetching \/ (mounted /\ ~locationPermissionGranted /\ locationPermissionGranted'))

\* LocationPermissionModal.requestLocationPermission up to the callbacks;
\* closureGranted: permissionState === 'granted' in the render that calls it
requestLocationPermission(closureGranted, inFlight) ==
  /\ modalProbes' = BagAdd(inFlight, [granted |-> closureGranted])

\* the re-render a dashboard-side step causes: the modal's effect on [isOpen]
\* runs when the modal comes on screen (lines 34-41)
ModalRender ==
  LET opened == ModalVisible' /\ ~ModalVisible
      entered == GateState # "blockedNeedsConsent" /\ GateState' = "blockedNeedsConsent"
  IN /\ probedSinceBlocked' = (probedSinceBlocked /\ ~entered)
     /\ IF opened /\ geo
        THEN /\ requestLocationPermission(permissionState = "granted", modalProbes)
             /\ UNCHANGED modalVars
        ELSE IF opened
        THEN /\ permissionState' = "error"
             /\ UNCHANGED <<modalLocation, modalProbes>>
        ELSE UNCHANGED <<modalVars, modalProbes>>

\* AuthProvider.handleAuthError, the listener of the 'authError' event
handleAuthError ==
  /\ authed' = FALSE
  /\ redirectPending' = (redirectPending \/ route # "/login")

\* an interceptor that takes every error response for an expired session
ResponseInterceptor_AnyError(status) ==
  IF status >= 400
  THEN /\ storedToken' = FALSE
       /\ storedUser' = FALSE
       /\ redirectAfterLogin' = IF route \notin {"/login", "/register"} THEN route ELSE redirectAfterLogin
       /\ handleAuthError
       /\ UNCHANGED route
  ELSE UNCHANGED sessionVars

\* the rejected branch of api.interceptors.response (lines 27-51)
ResponseInterceptor(status) ==
  IF status = 401
  THEN /\ storedToken' = FALSE
       /\ storedUser' = FALSE
       /\ redirectAfterLogin' = IF route \notin {"/login", "/register"} THEN route ELSE redirectAfterLogin
       /\ handleAuthError
       /\ UNCHANGED route
  ELSE UNCHANGED sessionVars

\* DriverDashboard.handleLocationEnabled
handleLocationEnabled(location) ==
  /\ perm' = "granted"
  /\ permTime' = now
  /\ SetCurrentLocation(location)
  /\ SetGate(FALSE, TRUE, FALSE, TRUE)
  /\ FetchEffect
  /\ startLiveLocationTracking(location)
  /\ toast' = "welcome"

\* ------------------------------------------------------ the Permission Gate
\* the test that selects the silent probe with an exclusive bound replaced by
\* an inclusive one
CachedConsentValid_Inclusive ==
  /\ perm = "granted"
  /\ permTime # NoTime
  /\ now - permTime <= sevenDays

\* the test that selects the silent probe (lines 80-84): a stored 'granted'
\* with a timestamp less than seven days old
CachedConsentValid ==
  /\ perm = "granted"
  /\ permTime # NoTime
  /\ now - permTime < sevenDays

\* the mount effect; throws: an access to localStorage raises inside the try
checkLocationPermissionStatus ==
  /\ mounted /\ ~checked
  /\ checked' = TRUE
  /\ \E throws \in BOOLEAN :
       LET timeDiff == now - permTime IN
       IF ~geo
       THEN /\ ~throws
            /\ toast' = "unsupported"
            /\ showLocationModal' = TRUE
            /\ permissionCheckComplete' = TRUE
            /\ UNCHANGED <<locationPermissionGranted, dashboardBlocked, mountProbeVars>>
            /\ ev' = Event("mount", "unsupported")
       ELSE IF throws
       THEN /\ toast' = ""
            /\ SetGate(TRUE, FALSE, TRUE, TRUE)
            /\ UNCHANGED mountProbeVars
            /\ ev' = Event("mount", "catch")
       ELSE IF CachedConsentValid
       THEN /\ toast' = ""
            /\ mountProbe' = "silent"
            /\ silentTimeDiff' = timeDiff
            /\ UNCHANGED gateVars
            /\ ev' = Event("mount", "silent")
       ELSE /\ toast' = ""
            /\ mountProbe' = "full"
            /\ UNCHANGED <<gateVars, silentTimeDiff>>
            /\ ev' = Event("mount", "full")
  /\ request' = NoLoc
  /\ UNCHANGED <<activeAtTeardown, envVars, pageVars, manualVars, consentVars, sessionVars, mounted, loading, fetching,
                 currentLocation, timerVars, periodic, retryPending,
                 pendingReporter, pendingModal>>
  /\ ModalRender
  /\ Bounded

\* the toast shown from one hour of age on instead of after one hour
ResumedToast_Inclusive(timeDiff) == IF timeDiff >= oneHour THEN "resumed" ELSE ""

\* the toast of the silent success callback (lines 103-106)
ResumedToast(timeDiff) == IF timeDiff > oneHour THEN "resumed" ELSE ""

\* a silent success callback that renews the timestamp of the record
SilentSuccess_RefreshesTimestamp(position) ==
  /\ mountProbe = "silent"
  /\ mountProbe' = "none"
  /\ UNCHANGED perm
  /\ permTime' = now
  /\ SetCurrentLocation(Location(position))
  /\ SetGate(showLocationModal, TRUE, FALSE, TRUE)
  /\ FetchEffect
  /\ startLiveLocationTracking(Location(position))
  /\ toast' = ResumedToast(silentTimeDiff)
  /\ ev' = Event("silentSuccess", "")
  /\ UNCHANGED <<activeAtTeardown, envVars, pageVars, manualVars, sessionVars, mounted, checked, loading,
                 silentTimeDiff, periodic, retryPending, pendingModal>>
  /\ ModalRender
  /\ Bounded

\* success callback of the silent probe (lines 87-107)
SilentSuccess(position) ==
  /\ mountProbe = "silent"
  /\ mountProbe' = "none"
  /\ SetCurrentLocation(Location(position))
  /\ SetGate(showLocationModal, TRUE, FALSE, TRUE)
  /\ FetchEffect
  /\ startLiveLocationTracking(Location(position))
  /\ toast' = ResumedToast(silentTimeDiff)
  /\ ev' = Event("silentSuccess", "")
  /\ UNCHANGED <<activeAtTeardown, envVars, pageVars, manualVars, consentVars, sessionVars, mounted, checked, loading,
                 silentTimeDiff, periodic, retryPending, pendingModal>>
  /\ ModalRender
  /\ Bounded

\* the error callback of the silent probe removing only the status key
SilentError_KeepsTimestamp(code) ==
  /\ mountProbe = "silent"
  /\ mountProbe' = "none"
  /\ perm' = "none"
  /\ UNCHANGED permTime
  /\ SetGate(TRUE, FALSE, TRUE, TRUE)
  /\ toast' = ""
  /\ request' = NoLoc
  /\ ev' = Event("silentError", code)
  /\ UNCHANGED <<activeAtTeardown, envVars, pageVars, manualVars, sessionVars, dashVars, timerVars, silentTimeDiff,
                 periodic, retryPending, pendingReporter, pendingModal>>
  /\ ModalRender
  /\ Bounded

\* error callback of the silent probe (lines 108-117)
SilentError(code) ==
  /\ mountProbe = "silent"
  /\ mountProbe' = "none"
  /\ perm' = "none"
  /\ permTime' = NoTime
  /\ SetGate(TRUE, FALSE, TRUE, TRUE)
  /\ toast' = ""
  /\ request' = NoLoc
  /\ ev' = Event("silentError", code)
  /\ UNCHANGED <<activeAtTeardown, envVars, pageVars, manualVars, sessionVars, dashVars, timerVars, silentTimeDiff,
                 periodic, retryPending, pendingReporter, pendingModal>>
  /\ ModalRender
  /\ Bounded

\* the success callback of the full probe writing only the status key
FullSuccess_NoTimestamp(position) ==
  /\ mountProbe = "full"
  /\ mountProbe' = "none"
  /\ perm' = "granted"
  /\ UNCHANGED permTime
  /\ SetCurrentLocation(Location(position))
  /\ SetGate(showLocationModal, TRUE, FALSE, TRUE)
  /\ FetchEffect
  /\ startLiveLocationTracking(Location(position))
  /\ toast' = "enabled"
  /\ ev' = Event("fullSuccess", "")
  /\ UNCHANGED <<activeAtTeardown, envVars, pageVars, manualVars, sessionVars, mounted, checked, loading,
                 silentTimeDiff, periodic, retryPending, pendingModal>>
  /\ ModalRender
  /\ Bounded

\* success callback of the full probe (lines 130-150)
FullSuccess(position) ==
  /\ mountProbe = "full"
  /\ mountProbe' = "none"
  /\ perm' = "granted"
  /\ permTime' = now
  /\ SetCurrentLocation(Location(position))
  /\ SetGate(showLocationModal, TRUE, FALSE, TRUE)
  /\ FetchEffect
  /\ startLiveLocationTracking(Location(position))
  /\ toast' = "enabled"
  /\ ev' = Event("fullSuccess", "")
  /\ UNCHANGED <<activeAtTeardown, envVars, pageVars, manualVars, sessionVars, mounted, checked, loading,
                 silentTimeDiff, periodic, retryPending, pendingModal>>
  /\ ModalRender
  /\ Bounded

\* error callback of the full probe (lines 151-159)
FullError(code) ==
  /\ mountProbe = "full"
  /\ mountProbe' = "none"
  /\ perm' = "denied"
  /\ UNCHANGED permTime
  /\ SetGate(TRUE, FALSE, TRUE, TRUE)
  /\ toast' = ""
  /\ request' = NoLoc
  /\ ev' = Event("fullError", code)
  /\ UNCHANGED <<activeAtTeardown, envVars, pageVars, manualVars, sessionVars, dashVars, timerVars, silentTimeDiff,
                 periodic, retryPending, pendingReporter, pendingModal>>
  /\ ModalRender
  /\ Bounded

\* finally-branch of fetchDashboardData; status: the worst of its responses
FetchResponse(status) ==
  /\ fetching
  /\ fetching' = FALSE
  /\ loading' = (loading /\ ~mounted)
  /\ ResponseInterceptor(status)
  /\ toast' = IF status = 200 THEN "" ELSE "loadFailed"
  /\ request' = NoLoc
  /\ ev' = Event("fetchResponse", "")
  /\ UNCHANGED <<activeAtTeardown, envVars, pageVars, manualVars, consentVars, gateVars, mounted, checked,
                 currentLocation, timerVars, mountProbeVars, periodic,
                 retryPending, pendingReporter, pendingModal>>
  /\ ModalRender
  /\ Bounded

\* ------------------------------------------------ the Live Location Reporter
\* the setInterval callback of timer t: one getCurrentPosition request
Tick(t) ==
  /\ t \in timers
  /\ periodic' = [periodic EXCEPT ![t] = @ + 1]
  /\ toast' = ""
  /\ request' = NoLoc
  /\ ev' = Event("tick", "")
  /\ UNCHANGED <<activeAtTeardown, envVars, pageVars, manualVars, consentVars, sessionVars, gateVars, dashVars,
                 timerVars, mountProbeVars, modalProbes, retryPending,
                 pendingReporter, pendingModal, modalVars, probedSinceBlocked>>
  /\ Bounded

\* success callback of a periodic probe of timer t (lines 185-193)
PeriodicSuccess(t, position) ==
  /\ periodic[t] > 0
  /\ periodic' = [periodic EXCEPT ![t] = @ - 1]
  /\ SetCurrentLocation(Location(position))
  /\ sendLocationUpdate(Location(position))
  /\ toast' = ""
  /\ ev' = Event("periodicSuccess", "")
  /\ UNCHANGED <<activeAtTeardown, envVars, pageVars, manualVars, consentVars, sessionVars, gateVars, mounted, checked,
                 loading, fetching, timerVars, mountProbeVars, modalProbes,
                 retryPending, pendingModal, modalVars, probedSinceBlocked>>

\* the error callback without its clearInterval(interval)
LiveTrackingError_NoClear(t, code) ==
  IF code = "PERMISSION_DENIED"
  THEN /\ perm' = "none"
       /\ permTime' = NoTime
       /\ UNCHANGED timers
       /\ SetGate(TRUE, FALSE, TRUE, permissionCheckComplete)
       /\ toast' = "disabled"
  ELSE /\ toast' = ""
       /\ UNCHANGED <<consentVars, timers, gateVars>>

\* the error callback without its test of error.code
LiveTrackingError_AnyCode(t, code) ==
  /\ perm' = "none"
  /\ permTime' = NoTime
  /\ timers' = timers \ {t}
  /\ SetGate(TRUE, FALSE, TRUE, permissionCheckComplete)
  /\ toast' = "disabled"

\* body of the error callback of a periodic probe of timer t (lines 194-209)
LiveTrackingError(t, code) ==
  IF code = "PERMISSION_DENIED"
  THEN /\ perm' = "none"
       /\ permTime' = NoTime
       /\ timers' = timers \ {t}
       /\ SetGate(TRUE, FALSE, TRUE, permissionCheckComplete)
       /\ toast' = "disabled"
  ELSE /\ toast' = ""
       /\ UNCHANGED <<consentVars, timers, gateVars>>

PeriodicError(t, code) ==
  /\ periodic[t] > 0
  /\ periodic' = [periodic EXCEPT ![t] = @ - 1]
  /\ LiveTrackingError(t, code)
  /\ request' = NoLoc
  /\ ev' = Event("periodicError", code)
  /\ UNCHANGED <<activeAtTeardown, envVars, pageVars, manualVars, sessionVars, dashVars, nextTimer, intervalHandle,
                 mountProbeVars, retryPending, pendingReporter, pendingModal>>
  /\ ModalRender
  /\ Bounded

\* a catch that reports the failure the way updateLocation's catch does
ReporterCatch_Toast(status) ==
  /\ toast' = IF status = 200 THEN "" ELSE "updateFailed"
  /\ UNCHANGED <<consentVars, gateVars, dashVars, timerVars>>

\* what the answer to a POST of DriverDashboard.sendLocationUpdate does after
\* the interceptor: the try falls through or the catch logs (lines 226-233)
ReporterCatch(status) ==
  /\ toast' = ""
  /\ UNCHANGED <<consentVars, gateVars, dashVars, timerVars>>

ReporterPostResponse(status) ==
  /\ pendingReporter > 0
  /\ pendingReporter' = pendingReporter - 1
  /\ ResponseInterceptor(status)
  /\ ReporterCatch(status)
  /\ request' = NoLoc
  /\ ev' = Event("reporterPostResponse", ToString(status))
  /\ UNCHANGED <<activeAtTeardown, envVars, pageVars, manualVars, mountProbeVars, periodic, modalProbes, retryPending,
                 pendingModal, modalVars, probedSinceBlocked>>

\* ------------------------------------------------- the manual location update
\* the 'Update Location' button of the dashboard content: updateLocation up to
\* its await (lines 348-359); the button is disabled while locationLoading
updateLocation ==
  /\ Rendered = "content"
  /\ ~locationLoading
  /\ IF currentLocation = NoLoc
     THEN /\ toast' = "notAvailable"
          /\ request' = NoLoc
          /\ UNCHANGED manualVars
     ELSE /\ locationLoading' = TRUE
          /\ pendingManual' = pendingManual + 1
          /\ request' = PostBody(currentLocation)
          /\ toast' = ""
  /\ ev' = Event("updateLocation", "")
  /\ UNCHANGED <<activeAtTeardown, envVars, pageVars, consentVars, sessionVars, gateVars, dashVars,
                 timerVars, mountProbeVars, periodic, modalProbes, retryPending,
                 pendingReporter, pendingModal, modalVars, probedSinceBlocked>>
  /\ Bounded

\* an outcome that empties the current-location slot when the push fails
ManualPostOutcome_DropsSlot(status) ==
  /\ toast' = IF status = 200 THEN "updated" ELSE "updateFailed"
  /\ locationLoading' = FALSE
  /\ currentLocation' = IF status = 200 THEN currentLocation ELSE NoLoc
  /\ UNCHANGED <<consentVars, gateVars, timerVars>>

\* what the answer to the POST of updateLocation does after the interceptor
\* (lines 360-365): a toast, and setLocationLoading(false)
ManualPostOutcome(status) ==
  /\ toast' = IF status = 200 THEN "updated" ELSE "updateFailed"
  /\ locationLoading' = FALSE
  /\ UNCHANGED <<consentVars, gateVars, timerVars, currentLocation>>

ManualPostResponse(status) ==
  /\ pendingManual > 0
  /\ pendingManual' = pendingManual - 1
  /\ ResponseInterceptor(status)
  /\ ManualPostOutcome(status)
  /\ request' = NoLoc
  /\ ev' = Event("manualPostResponse", ToString(status))
  /\ UNCHANGED <<activeAtTeardown, envVars, pageVars, mounted, checked, loading, fetching,
                 mountProbeVars, periodic, modalProbes, retryPending,
                 pendingReporter, pendingModal, modalVars, probedSinceBlocked>>

\* ------------------------------------------------- LocationPermissionModal
\* LocationPermissionModal.sendLocationUpdate up to its await; closureGranted
\* is the permissionState === 'granted' test of line 116 as the closure sees it
modalSendLocationUpdate(location, closureGranted) ==
  /\ pendingModal' = BagAdd(pendingModal, [loc |-> location, granted |-> closureGranted])
  /\ request' = PostBody(location)

\* success callback of requestLocationPermission (lines 51-66)
ModalProbeSuccess(k, position) ==
  /\ modalProbes[k] > 0
  /\ modalProbes' = BagDel(modalProbes, k)
  /\ IF ModalMounted
     THEN /\ modalLocation' = Location(position)
          /\ permissionState' = "granted"
     ELSE UNCHANGED <<modalLocation, permissionState>>
  /\ modalSendLocationUpdate(Location(position), k.granted)
  /\ toast' = "granted"
  /\ probedSinceBlocked' = TRUE
  /\ ev' = Event("modalProbeSuccess", IF k.granted THEN "granted" ELSE "")
  /\ UNCHANGED <<activeAtTeardown, envVars, pageVars, manualVars, consentVars, sessionVars, gateVars, dashVars,
                 timerVars, mountProbeVars, periodic, retryPending,
                 pendingReporter>>

\* handleLocationError (lines 82-103)
handleLocationError(code) ==
  IF ModalMounted
  THEN permissionState' = IF code = "PERMISSION_DENIED" THEN "denied" ELSE "error"
  ELSE UNCHANGED permissionState

ModalProbeError(k, code) ==
  /\ modalProbes[k] > 0
  /\ modalProbes' = BagDel(modalProbes, k)
  /\ handleLocationError(code)
  /\ toast' = ""
  /\ request' = NoLoc
  /\ ev' = Event("modalProbeError", code)
  /\ UNCHANGED <<activeAtTeardown, envVars, pageVars, manualVars, consentVars, sessionVars, gateVars, dashVars,
                 timerVars, mountProbeVars, periodic, retryPending,
                 pendingReporter, pendingModal, modalLocation, probedSinceBlocked>>

\* continuation of LocationPermissionModal.sendLocationUpdate (lines 115-122)
ModalPostResponse(m, status) ==
  /\ pendingModal[m] > 0
  /\ pendingModal' = BagDel(pendingModal, m)
  /\ ResponseInterceptor(status)
  /\ IF status = 200 /\ m.granted
     THEN handleLocationEnabled(m.loc)
     ELSE /\ toast' = ""
          /\ request' = NoLoc
          /\ UNCHANGED <<consentVars, gateVars, currentLocation, fetching,
                         timerVars, pendingReporter>>
  /\ ev' = Event("modalPostResponse", ToString(status))
  /\ UNCHANGED <<activeAtTeardown, envVars, pageVars, manualVars, mounted, checked, loading, mountProbeVars, periodic,
                 modalProbes, retryPending, modalVars, probedSinceBlocked>>

\* the 'Continue to Dashboard' button of the granted state (lines 236-241)
ContinueToDashboard ==
  /\ ModalVisible
  /\ permissionState = "granted"
  /\ handleLocationEnabled(modalLocation)
  /\ ev' = Event("continue", "")
  /\ UNCHANGED <<activeAtTeardown, envVars, pageVars, manualVars, sessionVars, mounted, checked, loading,
                 mountProbeVars, periodic, modalProbes, retryPending,
                 pendingModal, modalVars, probedSinceBlocked>>
  /\ Bounded

\* the 'Try Again' button: retryLocationRequest up to its setTimeout
retryLocationRequest ==
  /\ ModalVisible
  /\ permissionState \in {"denied", "error"}
  /\ retryPending' = retryPending + 1
  /\ permissionState' = "requesting"
  /\ toast' = ""
  /\ request' = NoLoc
  /\ ev' = Event("retry", "")
  /\ UNCHANGED <<activeAtTeardown, envVars, pageVars, manualVars, consentVars, sessionVars, gateVars, dashVars,
                 timerVars, mountProbeVars, periodic, modalProbes,
                 pendingReporter, pendingModal, modalLocation, probedSinceBlocked>>
  /\ Bounded

\* the timeout of retryLocationRequest fires; the render that armed it showed
\* the denied/error state, so its closure has permissionState # 'granted'
RetryTimeout ==
  /\ retryPending > 0
  /\ retryPending' = retryPending - 1
  /\ geo
  /\ requestLocationPermission(FALSE, modalProbes)
  /\ toast' = ""
  /\ request' = NoLoc
  /\ ev' = Event("retryTimeout", "")
  /\ UNCHANGED <<activeAtTeardown, envVars, pageVars, manualVars, consentVars, sessionVars, gateVars, dashVars,
                 timerVars, mountProbeVars, periodic, pendingReporter,
                 pendingModal, permissionState, modalLocation, probedSinceBlocked>>

\* ------------------------------------------------------- teardown, session
\* React drops the state of DriverDashboard and of the modal inside it
ComponentGone ==
  /\ mounted' = FALSE
  /\ checked' = FALSE
  /\ loading' = TRUE
  /\ currentLocation' = NoLoc
  /\ locationLoading' = FALSE
  /\ showLocationModal' = FALSE
  /\ locationPermissionGranted' = FALSE
  /\ dashboardBlocked' = TRUE
  /\ permissionCheckComplete' = FALSE
  /\ permissionState' = "requesting"
  /\ modalLocation' = NoLoc
  /\ probedSinceBlocked' = FALSE

\* a page load discards the state, the timeouts and the requests of the
\* other pages too
PagesGone ==
  /\ loginRedirect' = ""
  /\ formData' = EmptyForm
  /\ fareCalculated' = FALSE
  /\ orderLoading' = FALSE
  /\ orderRequest' = NoOrder
  /\ orderStatus' = NoStatus
  /\ statusFilter' = "all"
  /\ statusPosts' = 0
  /\ ordersFetching' = 0
  /\ statusRequest' = NoTransition

\* cleanup of the unmount effect (lines 339-346)
UnmountCleanup ==
  /\ timers' = IF intervalHandle # NoTimer THEN timers \ {intervalHandle} ELSE timers
  /\ intervalHandle' = NoTimer

\* the driver navigates to another page of the single-page application
Unmount ==
  /\ mounted
  /\ route' = "/driver/orders"
  /\ UnmountCleanup
  /\ ComponentGone
  /\ toast' = ""
  /\ request' = NoLoc
  /\ activeAtTeardown' = (timers # {})
  /\ ev' = Event("unmount", "")
  /\ UNCHANGED <<envVars, pageVars, consentVars, storedToken, storedUser,
                 redirectAfterLogin, authed, redirectPending, fetching,
                 nextTimer, mountProbeVars, periodic, modalProbes,
                 retryPending, pendingReporter, pendingModal, pendingManual>>

\* AuthProvider.logout (lines 339-365); the routes under ProtectedRoute are
\* left with it, so the dashboard, if still mounted, unmounts in the same
\* render and its cleanup finds the handle already null
logout ==
  /\ authed
  /\ timers' = IF intervalHandle # NoTimer THEN timers \ {intervalHandle} ELSE timers
  /\ intervalHandle' = NoTimer
  /\ perm' = "none"
  /\ permTime' = NoTime
  /\ authed' = FALSE
  /\ storedToken' = FALSE
  /\ storedUser' = FALSE
  /\ ComponentGone
  /\ toast' = ""
  /\ request' = NoLoc
  /\ activeAtTeardown' = (mounted /\ timers # {})
  /\ ev' = Event("logout", "")
  /\ UNCHANGED <<envVars, pageVars, redirectAfterLogin, route, redirectPending, fetching,
                 nextTimer, mountProbeVars, periodic, modalProbes,
                 retryPending, pendingReporter, pendingModal, pendingManual>>

\* the timeout of handleAuthError (lines 273-275): window.location.href =
\* '/login' loads a new document, which ends every timer, callback and
\* request of the old one
PageRedirect ==
  /\ redirectPending
  /\ redirectPending' = FALSE
  /\ route' = "/login"
  /\ authed' = (storedToken /\ storedUser)
  /\ ComponentGone
  /\ fetching' = FALSE
  /\ timers' = {}
  /\ intervalHandle' = NoTimer
  /\ mountProbe' = "none"
  /\ silentTimeDiff' = 0
  /\ periodic' = [t \in TimerIds |-> 0]
  /\ modalProbes' = [k \in ProbeKinds |-> 0]
  /\ retryPending' = 0
  /\ pendingReporter' = 0
  /\ pendingModal' = [m \in ModalPosts |-> 0]
  /\ pendingManual' = 0
  /\ toast' = ""
  /\ request' = NoLoc
  /\ activeAtTeardown' = FALSE
  /\ ev' = Event("pageRedirect", "")
  /\ PagesGone
  /\ UNCHANGED <<envVars, consentVars, storedToken, storedUser,
                 redirectAfterLogin, nextTimer>>

Next ==
  \/ checkLocationPermissionStatus
  \/ \E position \in Positions : SilentSuccess(position)
  \/ \E code \in Codes : SilentError(code)
  \/ \E position \in Positions : FullSuccess(position)
  \/ \E code \in Codes : FullError(code)
  \/ \E status \in Statuses : FetchResponse(status)
  \/ \E t \in TimerIds : Tick(t)
  \/ \E t \in TimerIds, position \in Positions : PeriodicSuccess(t, position)
  \/ \E t \in TimerIds, code \in Codes : PeriodicError(t, code)
  \/ \E status \in Statuses : ReporterPostResponse(status)
  \/ updateLocation
  \/ \E status \in Statuses : ManualPostResponse(status)
  \/ \E k \in ProbeKinds, position \in Positions : ModalProbeSuccess(k, position)
  \/ \E k \in ProbeKinds, code \in Codes : ModalProbeError(k, code)
  \/ \E m \in ModalPosts, status \in Statuses : ModalPostResponse(m, status)
  \/ ContinueToDashboard
  \/ retryLocationRequest
  \/ RetryTimeout
  \/ Unmount
  \/ logout
  \/ PageRedirect

Spec == Init /\ [][Next]_vars
\* the races between two callbacks in flight at once need the deeper run
DeepSpec == DeepInit /\ [][Next]_vars

TypeOK ==
  /\ perm \in {"none", "granted", "denied"}
  /\ timers \subseteq TimerIds
  /\ intervalHandle \in TimerIds \cup {NoTimer}
  /\ currentLocation \in Locations \cup {NoLoc}
  /\ request \in Locations \cup {NoLoc}
  /\ slack \in {0, 1}
  /\ pendingManual \in {0, 1}
  /\ locationLoading = (mounted /\ pendingManual = 1)
  /\ nextTimer <= MaxTimers + slack + 1
  /\ InFlight <= MaxInFlight + slack

\* =================================================================== claims
\* handlers that are callbacks of a mount-time probe or of a modal probe
ProbeCallbacks ==
  {"silentSuccess", "silentError", "fullSuccess", "fullError",
   "modalProbeSuccess", "modalProbeError"}
\* error responses: a status outside 2xx (0 is a request without a response)
NonOk == {status \in Statuses : status >= 300}
\* the answer to a POST /driver/location arrives
LocationPostResponse(status) ==
  \/ ReporterPostResponse(status)
  \/ ManualPostResponse(status)
  \/ \E m \in ModalPosts : ModalPostResponse(m, status)

\* C1 (as claimed): the dashboard content is on screen only while the gate is
\* open; while the gate is checking the spinner is on screen; while the gate
\* is blockedNeedsConsent the blocked screen is on screen.
C1_GateDecidesScreen ==
  mounted =>
    /\ Rendered = "content" => GateState = "open"
    /\ GateState = "checking" => Rendered = "spinner"
    /\ GateState = "blockedNeedsConsent" => Rendered = "blocked"

\* C2 (as claimed): a mounted dashboard has at most one interval created by
\* startLiveLocationTracking that is not yet cleared.
C2_AtMostOneTimer == mounted => Cardinality(timers) <= 1

\* C3 (as claimed): whenever a reporter timer is active the gate is open.
C3_TimerOnlyWhileOpen == (mounted /\ timers # {}) => GateState = "open"

\* C4 (as claimed): once the dashboard was unmounted with its timer active, no
\* step issues a POST /driver/location.
C4_NoPushAfterUnmount == (~mounted /\ activeAtTeardown) => request = NoLoc

\* C5 (as claimed): after teardown no timer is active, and a callback of a
\* mount-time or modal probe that arrives then creates no timer, leaves both
\* ConsentRecord keys as they are and issues no push.
C5_TeardownIsFinal ==
  [][~mounted' =>
       /\ timers' = {}
       /\ ev'.op \in ProbeCallbacks =>
            /\ timers' = timers
            /\ UNCHANGED consentVars
            /\ request' = NoLoc]_vars

\* C6: a periodic probe that fails with PERMISSION_DENIED while the gate is
\* open clears, in that callback, the timer that issued it, removes both
\* ConsentRecord keys, and leaves the gate blockedNeedsConsent with the modal
\* requested; an interval once cleared is never active again.
C6_PermissionLossRevokes ==
  [][\A t \in TimerIds :
       /\ (mounted /\ GateState = "open" /\ PeriodicError(t, "PERMISSION_DENIED")) =>
            /\ t \notin timers'
            /\ perm' = "none"
            /\ permTime' = NoTime
            /\ GateState' = "blockedNeedsConsent"
            /\ showLocationModal'
       /\ (t < nextTimer /\ t \notin timers) => t \notin timers']_vars

C6_Witness ==
  /\ ev = [op |-> "periodicError", code |-> "PERMISSION_DENIED", gate |-> "open"]
  /\ mounted
  /\ GateState = "blockedNeedsConsent"
  /\ showLocationModal
  /\ perm = "none"

\* C7: a periodic probe that fails with POSITION_UNAVAILABLE or TIMEOUT leaves
\* the timers, the gate, the ConsentRecord and the current-location slot as
\* they are and issues no push; the timer that issued it, if active, stays
\* active, so its next tick probes again.
C7_TransientFailureSkipped ==
  [][\A t \in TimerIds, code \in {"POSITION_UNAVAILABLE", "TIMEOUT"} :
       PeriodicError(t, code) =>
         /\ UNCHANGED <<timers, gateVars, consentVars, currentLocation>>
         /\ request' = NoLoc
         /\ t \in timers => (t \in timers' /\ InFlight' < MaxInFlight + slack)]_vars

C7_Witness ==
  /\ ev.op = "periodicError"
  /\ ev.code \in {"POSITION_UNAVAILABLE", "TIMEOUT"}
  /\ ev.gate = "open"
  /\ mounted
  /\ GateState = "open"
  /\ timers # {}
  /\ \E t \in timers : ENABLED Tick(t)

C10_OnlyAProbeOpensTheGate ==
  [][(mounted /\ GateState = "blockedNeedsConsent" /\ GateState' = "open")
       => probedSinceBlocked]_vars

\* C11 (as claimed): whenever the gate is blockedNeedsConsent the
\* LocationPermissionModal is on screen, also when the gate was blocked
\* straight from checking at mount.
C11_BlockedShowsModal ==
  (mounted /\ GateState = "blockedNeedsConsent") => ModalVisible

\* Scheduling under which recovery is claimed: the browser answers the
\* mount-time probe and every request, fires the retry timeout, the device
\* answers modal probes successfully again and again, and the driver keeps
\* pressing the buttons the modal offers.
Recovering ==
  /\ WF_vars(\/ \E position \in Positions : SilentSuccess(position) \/ FullSuccess(position)
             \/ \E code \in Codes : SilentError(code) \/ FullError(code))
  /\ WF_vars(\E status \in Statuses : FetchResponse(status))
  /\ SF_vars(\E k \in ProbeKinds, position \in Positions : ModalProbeSuccess(k, position))
  /\ WF_vars(\E m \in ModalPosts : ModalPostResponse(m, 200))
  /\ WF_vars(RetryTimeout)
  /\ SF_vars(retryLocationRequest)
  /\ SF_vars(ContinueToDashboard)

LiveSpec == Init /\ [][Next]_vars /\ Recovering

\* the gate was blocked by a failed probe of a runtime that has geolocation
BlockedByRetryableFailure ==
  /\ mounted
  /\ geo
  /\ GateState = "blockedNeedsConsent"
  /\ ev.op \in {"silentError", "fullError", "periodicError"}

\* C12 (as claimed): once the gate is blockedNeedsConsent through a failed
\* probe, the device answering probes and the driver retrying eventually open
\* the gate, unless the driver leaves the dashboard first.
C12_RetryEventuallyOpens ==
  BlockedByRetryableFailure ~> (GateState = "open" \/ ~mounted)

\* C13: when the mount effect reads a ConsentRecord whose age, now minus the
\* stored timestamp, is seven days or more in a runtime that has geolocation,
\* it issues the full probe and not the silent one.
C13_StaleConsentFullProbe ==
  [][(/\ checkLocationPermissionStatus
      /\ geo
      /\ permTime # NoTime
      /\ now - permTime >= sevenDays
      /\ ev'.code # "catch") => mountProbe' = "full"]_vars

C13_Witness ==
  /\ ev.op = "mount"
  /\ ev.code = "full"
  /\ perm = "granted"
  /\ permTime # NoTime
  /\ now - permTime = sevenDays
  /\ mountProbe = "full"

\* C14: a silent probe that fails, whatever the error code, removes both
\* ConsentRecord keys, which is the stored state of a user who never had a
\* record, starts no timer and issues no push, and leaves the gate of a
\* mounted dashboard blockedNeedsConsent.
C14_SilentFailureErasesConsent ==
  [][\A code \in Codes :
       SilentError(code) =>
         /\ <<perm', permTime'>> = <<"none", NoTime>>
         /\ UNCHANGED timerVars
         /\ request' = NoLoc
         /\ pendingReporter' = pendingReporter
         /\ mounted => GateState' = "blockedNeedsConsent"]_vars

C14_Witness ==
  /\ ev.op = "silentError"
  /\ ev.gate = "checking"
  /\ mounted
  /\ GateState = "blockedNeedsConsent"
  /\ <<perm, permTime>> = <<"none", NoTime>>
  /\ timers = {}

\* C15: when the full probe of a mounted dashboard succeeds, the gate is still
\* checking (it has never been blockedNeedsConsent) and becomes open in that
\* callback, the ConsentRecord becomes {granted, now}, the probed position is
\* the current location, and the reporter is started: the position is pushed
\* and a new interval is created.
C15_FullProbeOpensGate ==
  [][\A position \in Positions :
       (mounted /\ FullSuccess(position)) =>
         /\ GateState = "checking"
         /\ GateState' = "open"
         /\ <<perm', permTime'>> = <<"granted", now>>
         /\ currentLocation' = Location(position)
         /\ request' = [lat |-> position.latitude, lng |-> position.longitude]
         /\ timers' = timers \cup {nextTimer}
         /\ nextTimer \notin timers
         /\ intervalHandle' = nextTimer]_vars

C15_Witness ==
  /\ ev = [op |-> "fullSuccess", code |-> "", gate |-> "checking"]
  /\ mounted
  /\ GateState = "open"
  /\ <<perm, permTime>> = <<"granted", now>>
  /\ currentLocation \in Locations
  /\ request = currentLocation
  /\ timers # {}

\* C16 (as claimed): when the full probe of a mounted dashboard fails, the
\* ConsentRecord afterwards is {denied, time of the failure}, both keys
\* written, and the gate is blockedNeedsConsent.
C16_FullFailureDatedDenial ==
  [][\A code \in Codes :
       (mounted /\ FullError(code)) =>
         /\ <<perm', permTime'>> = <<"denied", now>>
         /\ GateState' = "blockedNeedsConsent"]_vars

\* the modal shows its denied/error state, whose 'Try Again' button retries
RetryOffered == ModalVisible /\ permissionState \in {"denied", "error"}
\* a getCurrentPosition request is awaiting its callback
ProbeInFlight ==
  mountProbe # "none" \/ BagSize(periodic) + BagSize(modalProbes) > 0

\* C17: in a runtime without geolocation the mount effect leaves the gate
\* blockedNeedsConsent and the gate never becomes open, no step writes a
\* ConsentRecord key (logout may remove them), no position request is ever
\* issued, and the driver is never offered the retry button.
C17_NoCapabilityIsFatal ==
  [][~geo =>
       /\ (mounted' /\ checked') => GateState' = "blockedNeedsConsent"
       /\ GateState' # "open"
       /\ perm' \in {perm, "none"}
       /\ permTime' \in {permTime, NoTime}
       /\ ~ProbeInFlight'
       /\ retryPending' = 0
       /\ ~RetryOffered']_vars

C17_Witness ==
  /\ ~geo
  /\ mounted
  /\ ev = [op |-> "mount", code |-> "unsupported", gate |-> "checking"]
  /\ toast = "unsupported"
  /\ GateState = "blockedNeedsConsent"
  /\ showLocationModal
  /\ perm = "granted"

\* the gate of the mounted dashboard becomes open in this step
Opening == mounted /\ GateState # "open" /\ GateState' = "open"
\* the success callback of a modal probe POSTs the position itself (line 63),
\* so a modal probe that succeeded since the gate was blocked has pushed
ModalPushedSinceBlocked == probedSinceBlocked

\* C18 (as claimed): a step that opens the gate issues one POST
\* /driver/location with the position that opens it and no position request,
\* and that POST is the only one made for this opening: the modal has not
\* already pushed the position.
C18_OnePushPerOpening ==
  [][Opening =>
       /\ request' = PostBody(currentLocation')
       /\ pendingReporter' = pendingReporter + 1
       /\ UNCHANGED <<periodic, modalProbes>>
       /\ mountProbe' = "none"
       /\ ~ModalPushedSinceBlocked]_vars

\* the coordinates of a probe result as a request body
Coords(position) == [lat |-> position.latitude, lng |-> position.longitude]

\* C19: the body of every POST /driver/location the reporter issues has the
\* latitude and longitude of the probe result that caused it: the result of
\* the silent, full or periodic probe in whose callback it is sent, or the
\* result of the modal probe that handleLocationEnabled is called back with.
C19_PushCarriesProbeResult ==
  [][/\ \A position \in Positions :
          (\/ SilentSuccess(position)
           \/ FullSuccess(position)
           \/ \E t \in TimerIds : PeriodicSuccess(t, position))
            => request' = Coords(position)
     /\ \A position \in Positions, k \in ProbeKinds :
          ModalProbeSuccess(k, position) =>
            /\ request' = Coords(position)
            /\ \E m \in ModalPosts :
                 /\ m.loc = Coords(position)
                 /\ pendingModal'[m] = pendingModal[m] + 1
     /\ \A m \in ModalPosts :
          (m.granted /\ ModalPostResponse(m, 200)) => request' = m.loc]_vars

C19_Witness ==
  /\ ev.op = "periodicSuccess"
  /\ mounted
  /\ request \in Locations
  /\ request = currentLocation
  /\ pendingReporter > 0

\* C20: with the current-location slot set, the manual update pushes exactly
\* the slot value, and neither the click nor the answer to its POST, success
\* or failure, changes the timers, the interval handle, the gate, the
\* ConsentRecord or the slot.
C20_ManualUpdateFrame ==
  [][/\ (updateLocation /\ currentLocation # NoLoc) =>
          /\ request' = currentLocation
          /\ pendingManual' = pendingManual + 1
          /\ UNCHANGED <<timerVars, gateVars, consentVars, currentLocation>>
     /\ \A status \in Statuses :
          ManualPostResponse(status) =>
            UNCHANGED <<timerVars, gateVars, consentVars, currentLocation>>]_vars

C20_Witness ==
  /\ ev.op = "manualPostResponse"
  /\ ev.code \in {"0", "500"}
  /\ toast = "updateFailed"
  /\ mounted
  /\ GateState = "open"
  /\ currentLocation \in Locations
  /\ timers # {}
  /\ ~locationLoading

\* C21 (as claimed): a modal probe that succeeds calls back into the gate
\* without another click: when the POST the success callback made is answered
\* 200, handleLocationEnabled has run with the probed position and the gate of
\* the mounted dashboard is open, on the first opening of the modal too.
C21_ProbeSuccessCallsBack ==
  [][\A m \in ModalPosts :
       (mounted /\ ModalPostResponse(m, 200)) =>
         /\ GateState' = "open"
         /\ currentLocation' = m.loc
         /\ <<perm', permTime'>> = <<"granted", now>>]_vars

\* C22 (as claimed): a periodic probe that completes while the gate of the
\* mounted dashboard is blockedNeedsConsent, success or failure, issues no POST
\* /driver/location, leaves the current-location slot as it is and shows no
\* 'access disabled' toast.
C22_NoReportWhileBlocked ==
  [][\A t \in TimerIds :
       (/\ mounted
        /\ GateState = "blockedNeedsConsent"
        /\ \/ \E position \in Positions : PeriodicSuccess(t, position)
           \/ \E code \in Codes : PeriodicError(t, code)) =>
         /\ request' = NoLoc
         /\ UNCHANGED currentLocation
         /\ toast' # "disabled"]_vars

\* C23: when the silent probe of a mounted dashboard succeeds, the 'resumed'
\* toast is shown exactly if the cached consent is more than one hour old;
\* either way the gate becomes open, the sample is the current location, and
\* the reporter is started: the sample is pushed and an interval is created.
C23_ResumedToastAfterOneHour ==
  [][\A position \in Positions :
       (mounted /\ SilentSuccess(position)) =>
         /\ (toast' = "resumed") <=> (now - permTime > oneHour)
         /\ toast' \in {"resumed", ""}
         /\ GateState' = "open"
         /\ currentLocation' = Location(position)
         /\ request' = Coords(position)
         /\ timers' = timers \cup {nextTimer}
         /\ nextTimer \notin timers]_vars

C23_Witness ==
  /\ ev = [op |-> "silentSuccess", code |-> "", gate |-> "checking"]
  /\ mounted
  /\ toast = ""
  /\ now - permTime = oneHour
  /\ GateState = "open"
  /\ currentLocation \in Locations
  /\ timers # {}

\* ---------------------------------------- updateLocation taken on its own
\* The handler reads the current-location slot, whose type includes null
\* (useState(null)).  No behaviour of Spec has the dashboard content on screen
\* with an empty slot (C26), so the handler is also applied to every value of
\* the slot directly: the content of an open dashboard with a running
\* reporter, the slot holding a position or null.
ContentShown ==
  /\ PagesClosed
  /\ geo = TRUE
  /\ now = T0
  /\ perm = "granted"
  /\ permTime \in {T0, T0 - oneHour, T0 - 2 * oneHour}
  /\ storedToken = TRUE
  /\ storedUser = TRUE
  /\ redirectAfterLogin = ""
  /\ authed = TRUE
  /\ route = "/driver"
  /\ redirectPending = FALSE
  /\ mounted = TRUE
  /\ checked = TRUE
  /\ loading = FALSE
  /\ fetching = FALSE
  /\ currentLocation \in Locations \cup {NoLoc}
  /\ locationLoading = FALSE
  /\ pendingManual = 0
  /\ showLocationModal = FALSE
  /\ locationPermissionGranted = TRUE
  /\ dashboardBlocked = FALSE
  /\ permissionCheckComplete = TRUE
  /\ timers = {1}
  /\ nextTimer = 2
  /\ intervalHandle = 1
  /\ mountProbe = "none"
  /\ silentTimeDiff = 0
  /\ periodic = [t \in TimerIds |-> 0]
  /\ modalProbes = [k \in ProbeKinds |-> 0]
  /\ retryPending = 0
  /\ pendingReporter = 0
  /\ pendingModal = [m \in ModalPosts |-> 0]
  /\ permissionState = "requesting"
  /\ modalLocation = NoLoc
  /\ activeAtTeardown = FALSE
  /\ probedSinceBlocked = FALSE
  /\ ev = [op |-> "fetchResponse", code |-> "", gate |-> "open"]
  /\ toast = ""
  /\ request = NoLoc

ManualInit == slack = 0 /\ ContentShown
ManualNext ==
  \/ updateLocation
  \/ \E status \in Statuses : ManualPostResponse(status)
  \/ Unmount
  \/ logout
  \/ PageRedirect
ManualSpec == ManualInit /\ [][ManualNext]_vars

\* getCurrentPosition requests awaiting their callback
ProbesInFlight ==
  (IF mountProbe = "none" THEN 0 ELSE 1) + BagSize(periodic) + BagSize(modalProbes)

C25_SilentSuccessKeepsRecord ==
  [][/\ \A position \in Positions :
          SilentSuccess(position) => UNCHANGED <<perm, permTime>>
     /\ (/\ checkLocationPermissionStatus
         /\ geo
         /\ perm = "granted"
         /\ permTime # NoTime
         /\ now - permTime >= sevenDays
         /\ ev'.code # "catch") => mountProbe' = "full"]_vars

C25_Witness ==
  /\ ev.op = "silentSuccess"
  /\ mounted
  /\ GateState = "open"
  /\ perm = "granted"
  /\ permTime = T0 - 2 * oneHour
  /\ toast = "resumed"

\* C26: whenever the gate of the mounted dashboard is open the
\* current-location slot holds a position, so updateLocation never takes its
\* 'Location not available' branch while the dashboard content is on screen.
C26_OpenHasLocation ==
  /\ (mounted /\ GateState = "open") => currentLocation \in Locations
  /\ toast # "notAvailable"

C26_Witness ==
  /\ ev.op = "updateLocation"
  /\ mounted
  /\ GateState = "open"
  /\ currentLocation \in Locations
  /\ request = currentLocation

\* logout() has ended the session and nothing has replaced it: the session
\* state is empty without the redirect an expired session arms or has made
LoggedOut == ~authed /\ ~storedToken /\ ~redirectPending /\ route # "/login"

\* C27 (as claimed): from logout() until the user next mounts the dashboard,
\* both keys of the ConsentRecord are absent and no reporter timer is active;
\* no callback of a probe or push started before the logout recreates the
\* record or starts a timer.
C27_LogoutIsClean ==
  LoggedOut => /\ perm = "none"
               /\ permTime = NoTime
               /\ timers = {}

\* ================================================= the customer's session
\* The session of a customer: the routes of Paths, the CreateOrder page, the
\* response interceptor, handleAuthError's redirect, LoginPage and
\* AuthProvider.login.  The driver dashboard is not on screen.  A page load
\* (window.location.href = ...) starts a new document: initAuth restores the
\* session from localStorage.  The customer stays on CreateOrder while
\* handleSubmit awaits its response.
driverVars ==
  <<consentVars, gateVars, dashVars, timerVars, mountProbeVars, modalVars,
    manualVars, periodic, modalProbes, retryPending, pendingReporter,
    pendingModal, activeAtTeardown, probedSinceBlocked, request>>

DashboardAbsent ==
  /\ geo = TRUE
  /\ now = T0
  /\ perm = "none"
  /\ permTime = NoTime
  /\ mounted = FALSE
  /\ checked = FALSE
  /\ loading = TRUE
  /\ fetching = FALSE
  /\ currentLocation = NoLoc
  /\ locationLoading = FALSE
  /\ pendingManual = 0
  /\ showLocationModal = FALSE
  /\ locationPermissionGranted = FALSE
  /\ dashboardBlocked = TRUE
  /\ permissionCheckComplete = FALSE
  /\ timers = {}
  /\ nextTimer = 1
  /\ intervalHandle = NoTimer
  /\ mountProbe = "none"
  /\ silentTimeDiff = 0
  /\ periodic = [t \in TimerIds |-> 0]
  /\ modalProbes = [k \in ProbeKinds |-> 0]
  /\ retryPending = 0
  /\ pendingReporter = 0
  /\ pendingModal = [m \in ModalPosts |-> 0]
  /\ permissionState = "requesting"
  /\ modalLocation = NoLoc
  /\ activeAtTeardown = FALSE
  /\ probedSinceBlocked = FALSE
  /\ request = NoLoc

\* a logged-in customer on one of the protected pages
CustomerInit ==
  /\ slack = 0
  /\ DashboardAbsent
  /\ PagesClosed
  /\ storedToken = TRUE
  /\ storedUser = TRUE
  /\ redirectAfterLogin = ""
  /\ authed = TRUE
  /\ route \in Paths \ PublicPaths
  /\ redirectPending = FALSE
  /\ ev = [op |-> "construct", code |-> "", gate |-> "checking"]
  /\ toast = ""

\* the component of the page that is left is unmounted, the one entered starts
\* from its useState values
FormReset ==
  /\ formData' = EmptyForm
  /\ fareCalculated' = FALSE
  /\ orderLoading' = FALSE

\* a link or navigate() of the router: no page load
navigate(path) ==
  /\ authed
  /\ route \notin PublicPaths
  /\ path \in Paths \ PublicPaths
  /\ path # route
  /\ ~orderLoading
  /\ route' = path
  /\ FormReset
  /\ orderRequest' = NoOrder
  /\ toast' = ""
  /\ ev' = Event("navigate", path)
  /\ UNCHANGED <<envVars, driverVars, ordersVars, loginRedirect, storedToken,
                 storedUser, redirectAfterLogin, authed, redirectPending>>

\* a request of the page on screen, other than the order, is answered with
\* an error: the rejected branch of the interceptor, then the page's catch
ApiErrorResponse(status) ==
  /\ route \notin PublicPaths
  /\ status # 200
  /\ ResponseInterceptor(status)
  /\ toast' = "loadFailed"
  /\ orderRequest' = NoOrder
  /\ ev' = Event("apiError", ToString(status))
  /\ UNCHANGED <<envVars, driverVars, ordersVars, loginRedirect, formData,
                 fareCalculated, orderLoading>>

\* ------------------------------------------------------------ CreateOrder
FieldValues(name) ==
  IF name \in {"pickup_lat", "drop_lat"} THEN Latitudes \cup {Empty}
  ELSE {Meridian, Empty}

OnCreateOrder == route = "/customer/create-order"

\* handleCoordinateChange (lines 274-291): the map state is not modelled
handleCoordinateChange(name, value) ==
  /\ OnCreateOrder
  /\ value # formData[name]
  /\ formData' = [formData EXCEPT ![name] = value]
  /\ orderRequest' = NoOrder
  /\ toast' = ""
  /\ ev' = Event("coordinateChange", name)
  /\ UNCHANGED <<envVars, driverVars, ordersVars, sessionVars, loginRedirect,
                 fareCalculated, orderLoading>>

\* handleChange (lines 260-272) on the material_weight input
handleChange(value) ==
  /\ OnCreateOrder
  /\ value # formData.material_weight
  /\ formData' = [formData EXCEPT !.material_weight = value]
  /\ orderRequest' = NoOrder
  /\ toast' = ""
  /\ ev' = Event("weightChange", "")
  /\ UNCHANGED <<envVars, driverVars, ordersVars, sessionVars, loginRedirect,
                 fareCalculated, orderLoading>>

Abs(x) == IF x < 0 THEN -x ELSE x
\* Haversine distance of two points of one meridian, in units of 0.0001 km:
\* R * |dLat| * pi / 180 with R = 6371, i.e. 111.1949 km per degree
KmPerDegree == 1111949
Distance(form) == Abs(form.drop_lat - form.pickup_lat) * KmPerDegree
\* base 30 + 10 per km + 5 per kg, in units of 0.0001
TotalFare(form) == 300000 + Distance(form) * 10 + form.material_weight * 50000
\* Number.prototype.toFixed(2) of a value given in units of 0.0001: the
\* value rounded to hundredths
toFixed2(x) == (x + 50) \div 100

RequiredFields == CoordinateFields \cup {"material_weight"}
Filled(form) == \A name \in RequiredFields : form[name] # Empty

\* calculateFare (lines 312-345)
calculateFare ==
  /\ OnCreateOrder
  /\ IF ~Filled(formData)
     THEN /\ toast' = "fillAll"
          /\ UNCHANGED <<formData, fareCalculated>>
     ELSE /\ formData' = [formData EXCEPT !.distance_km = toFixed2(Distance(formData)),
                                          !.fare_total = toFixed2(TotalFare(formData))]
          /\ fareCalculated' = TRUE
          /\ toast' = "calculated"
  /\ orderRequest' = NoOrder
  /\ ev' = Event("calculateFare", "")
  /\ UNCHANGED <<envVars, driverVars, ordersVars, sessionVars, loginRedirect,
                 orderLoading>>

\* handleSubmit up to its await (lines 347-374).  The submit button is
\* disabled while loading or before a fare was calculated, and the browser
\* does not submit the form while a required input is empty.
handleSubmit ==
  /\ OnCreateOrder
  /\ fareCalculated
  /\ ~orderLoading
  /\ Filled(formData)
  /\ orderLoading' = TRUE
  /\ orderRequest' = formData
  /\ toast' = ""
  /\ ev' = Event("handleSubmit", "")
  /\ UNCHANGED <<envVars, driverVars, ordersVars, sessionVars, loginRedirect,
                 formData, fareCalculated>>

\* the rest of handleSubmit (lines 376-393): on success navigate() to the
\* driver selection, else the interceptor and a toast
SubmitResponse(status) ==
  /\ orderLoading
  /\ IF status = 200
     THEN /\ route' = "/customer/select-driver"
          /\ FormReset
          /\ toast' = "created"
          /\ UNCHANGED <<storedToken, storedUser, redirectAfterLogin, authed,
                         redirectPending>>
     ELSE /\ ResponseInterceptor(status)
          /\ orderLoading' = FALSE
          /\ toast' = IF status = 401 THEN "sessionExpired" ELSE "createFailed"
          /\ UNCHANGED <<formData, fareCalculated>>
  /\ orderRequest' = NoOrder
  /\ ev' = Event("submitResponse", ToString(status))
  /\ UNCHANGED <<envVars, driverVars, ordersVars, loginRedirect>>

\* ------------------------------------------------------------------ login
\* AuthProvider.login that reads the stored path and leaves it in place
login_KeepsPath(status) ==
  IF status = 200
  THEN /\ authed' = TRUE
       /\ storedToken' = TRUE
       /\ storedUser' = TRUE
       /\ loginRedirect' = redirectAfterLogin
       /\ UNCHANGED redirectAfterLogin
       /\ UNCHANGED redirectPending
  ELSE /\ ResponseInterceptor(status)
       /\ UNCHANGED loginRedirect

\* AuthProvider.login (part_006 lines 289-317) once the POST /auth/login is
\* answered: on success the session is stored and a stored path is removed
\* and handed to a timeout; a failure passes the interceptor and is returned
login(status) ==
  IF status = 200
  THEN /\ authed' = TRUE
       /\ storedToken' = TRUE
       /\ storedUser' = TRUE
       /\ loginRedirect' = redirectAfterLogin
       /\ redirectAfterLogin' = ""
       /\ UNCHANGED redirectPending
  ELSE /\ ResponseInterceptor(status)
       /\ UNCHANGED loginRedirect

\* LoginPage.handleSubmit: login(), then, without a redirect path, the
\* navigate() by role
LoginSubmit(status) ==
  /\ route = "/login"
  /\ loginRedirect = ""
  /\ login(status)
  /\ IF status = 200
     THEN /\ route' = IF redirectAfterLogin # "" THEN route ELSE "/customer"
          /\ toast' = "loginSuccessful"
     ELSE toast' = "loginFailed"
  /\ FormReset
  /\ orderRequest' = NoOrder
  /\ ev' = Event("login", ToString(status))
  /\ UNCHANGED <<envVars, driverVars, ordersVars>>

\* the timeout of login() (lines 307-309): window.location.href = redirectPath
LoginRedirect ==
  /\ loginRedirect # ""
  /\ route' = loginRedirect
  /\ loginRedirect' = ""
  /\ authed' = (storedToken /\ storedUser)
  /\ redirectPending' = FALSE
  /\ FormReset
  /\ orderRequest' = NoOrder
  /\ toast' = ""
  /\ ev' = Event("loginRedirect", loginRedirect)
  /\ UNCHANGED <<envVars, driverVars, ordersVars, storedToken, storedUser,
                 redirectAfterLogin>>

CustomerNext ==
  \/ \E path \in Paths : navigate(path)
  \/ \E status \in Statuses : ApiErrorResponse(status)
  \/ \E name \in CoordinateFields : \E value \in FieldValues(name) :
       handleCoordinateChange(name, value)
  \/ \E value \in Weights \cup {Empty} : handleChange(value)
  \/ calculateFare
  \/ handleSubmit
  \/ \E status \in Statuses : SubmitResponse(status)
  \/ PageRedirect
  \/ \E status \in Statuses : LoginSubmit(status)
  \/ LoginRedirect

CustomerSpec == CustomerInit /\ [][CustomerNext]_vars

\* C28: a 401 answered to a request of a page P other than /login and
\* /register removes the stored token and user and stores P as
\* redirectAfterLogin; the next successful login removes the stored path and
\* its timeout loads P; a failed login leaves the stored path in place; and a
\* path is consumed by one login only: once handed to the timeout it is no
\* longer stored.
C28_RedirectAfterLogin ==
  [][/\ (ApiErrorResponse(401) \/ SubmitResponse(401)) =>
          /\ route \notin PublicPaths
          /\ ~storedToken' /\ ~storedUser'
          /\ redirectAfterLogin' = route
     /\ LoginSubmit(200) =>
          /\ loginRedirect' = redirectAfterLogin
          /\ redirectAfterLogin' = ""
          /\ storedToken' /\ storedUser'
     /\ \A status \in Statuses \ {200} :
          LoginSubmit(status) => /\ UNCHANGED redirectAfterLogin
                                 /\ loginRedirect' = ""
     /\ LoginRedirect =>
          /\ route' = loginRedirect
          /\ redirectAfterLogin' = ""
          /\ authed']_vars

C28_Witness ==
  /\ ev = [op |-> "loginRedirect", code |-> "/customer/create-order", gate |-> "checking"]
  /\ route = "/customer/create-order"
  /\ redirectAfterLogin = ""
  /\ loginRedirect = ""
  /\ authed
  /\ storedToken

\* C29 (as claimed): every order handleSubmit sends carries the distance_km
\* and fare_total that calculateFare computes from the pickup and drop
\* coordinates and the material_weight sent in the same request.
C29_OrderCarriesItsFare ==
  orderRequest # NoOrder =>
    /\ orderRequest.distance_km = toFixed2(Distance(orderRequest))
    /\ orderRequest.fare_total = toFixed2(TotalFare(orderRequest))

\* =========================================================== DriverOrders
\* The 'My Orders' tab of DriverOrders with one order of the driver.  The
\* status the list shows is the one the last successful fetchOrders returned;
\* the server, which others act on too, may return any status.  The search
\* box and the other two tabs are not modelled.
StatusFilters == {"all", "accepted", "assigned", "picked", "delivering", "delivered", "cancelled"}

\* a flow that also offers a step out of pending
getNextStatus_FromPending(currentStatus) ==
  CASE currentStatus = "pending" -> "accepted"
    [] currentStatus = "accepted" -> "picked"
    [] currentStatus = "assigned" -> "picked"
    [] currentStatus = "picked" -> "delivering"
    [] currentStatus = "delivering" -> "delivered"
    [] OTHER -> NoStatus

\* getNextStatus (lines 122-130): statusFlow[currentStatus], undefined for a
\* status that is not a key
getNextStatus(currentStatus) ==
  CASE currentStatus = "accepted" -> "picked"
    [] currentStatus = "assigned" -> "picked"
    [] currentStatus = "picked" -> "delivering"
    [] currentStatus = "delivering" -> "delivered"
    [] OTHER -> NoStatus

\* filteredMyOrders (lines 142-148) contains the order
OrderListed ==
  /\ orderStatus # NoStatus
  /\ statusFilter = "all" \/ orderStatus = statusFilter

OrdersInFlight == statusPosts + ordersFetching

\* the driver on /driver/orders; the mount effect has called fetchOrders
OrdersInit ==
  /\ slack = 0
  /\ DashboardAbsent
  /\ loginRedirect = ""
  /\ formData = EmptyForm
  /\ fareCalculated = FALSE
  /\ orderLoading = FALSE
  /\ orderRequest = NoOrder
  /\ storedToken = TRUE
  /\ storedUser = TRUE
  /\ redirectAfterLogin = ""
  /\ authed = TRUE
  /\ route = "/driver/orders"
  /\ redirectPending = FALSE
  /\ orderStatus = NoStatus
  /\ statusFilter = "all"
  /\ statusPosts = 0
  /\ ordersFetching = 1
  /\ statusRequest = NoTransition
  /\ ev = [op |-> "construct", code |-> "", gate |-> "checking"]
  /\ toast = ""

OnDriverOrders == route = "/driver/orders"

\* fetchOrders (lines 36-62) once its requests are answered; served: the
\* status of the order in the response
FetchOrdersResponse(status, served) ==
  /\ OnDriverOrders
  /\ ordersFetching > 0
  /\ ordersFetching' = ordersFetching - 1
  /\ ResponseInterceptor(status)
  /\ IF status = 200
     THEN /\ orderStatus' = served
          /\ toast' = ""
     ELSE /\ UNCHANGED orderStatus
          /\ toast' = "loadFailed"
  /\ statusRequest' = NoTransition
  /\ ev' = Event("fetchOrdersResponse", ToString(status))
  /\ UNCHANGED <<envVars, driverVars, customerVars, loginRedirect, statusFilter,
                 statusPosts>>

\* the status select (lines 258-270)
setStatusFilter(filter) ==
  /\ OnDriverOrders
  /\ filter # statusFilter
  /\ statusFilter' = filter
  /\ statusRequest' = NoTransition
  /\ toast' = ""
  /\ ev' = Event("setStatusFilter", filter)
  /\ UNCHANGED <<envVars, driverVars, customerVars, sessionVars, loginRedirect,
                 orderStatus, statusPosts, ordersFetching>>

\* the button of lines 519-526: updateOrderStatus(order.id,
\* getNextStatus(order.status)) up to its await (lines 94-96)
updateOrderStatus ==
  /\ OnDriverOrders
  /\ OrderListed
  /\ getNextStatus(orderStatus) # NoStatus
  /\ OrdersInFlight < MaxInFlight + slack
  /\ statusPosts' = statusPosts + 1
  /\ statusRequest' = [from |-> orderStatus, to |-> getNextStatus(orderStatus)]
  /\ toast' = ""
  /\ ev' = Event("updateOrderStatus", orderStatus)
  /\ UNCHANGED <<envVars, driverVars, customerVars, sessionVars, loginRedirect,
                 orderStatus, statusFilter, ordersFetching>>

\* the rest of updateOrderStatus (lines 97-101)
StatusResponse(status) ==
  /\ OnDriverOrders
  /\ statusPosts > 0
  /\ statusPosts' = statusPosts - 1
  /\ ResponseInterceptor(status)
  /\ IF status = 200
     THEN /\ toast' = "marked"
          /\ ordersFetching' = ordersFetching + 1
     ELSE /\ toast' = "updateFailed"
          /\ UNCHANGED ordersFetching
  /\ statusRequest' = NoTransition
  /\ ev' = Event("statusResponse", ToString(status))
  /\ UNCHANGED <<envVars, driverVars, customerVars, loginRedirect, orderStatus,
                 statusFilter>>

OrdersNext ==
  \/ \E status \in Statuses, served \in OrderStatuses : FetchOrdersResponse(status, served)
  \/ \E filter \in StatusFilters : setStatusFilter(filter)
  \/ updateOrderStatus
  \/ \E status \in Statuses : StatusResponse(status)
  \/ PageRedirect

OrdersSpec == OrdersInit /\ [][OrdersNext]_vars

\* clicks it takes, following getNextStatus from status s, to reach a status
\* without a next action; fuel stops a flow that never ends
RECURSIVE StepsToEnd(_, _)
StepsToEnd(s, fuel) ==
  IF getNextStatus(s) = NoStatus \/ fuel = 0 THEN 0
  ELSE 1 + StepsToEnd(getNextStatus(s), fuel - 1)

AllowedTransitions ==
  { [from |-> "accepted", to |-> "picked"], [from |-> "assigned", to |-> "picked"],
    [from |-> "picked", to |-> "delivering"], [from |-> "delivering", to |-> "delivered"] }

\* C30: DriverOrders requests only the transitions accepted->picked,
\* assigned->picked, picked->delivering and delivering->delivered of the
\* status it shows; from whatever status is shown, following getNextStatus
\* ends within three steps at a status without a next action; and for
\* delivered, cancelled, pending and requested no next status is offered.
C30_StatusFlow ==
  /\ statusRequest \in AllowedTransitions \cup {NoTransition}
  /\ StepsToEnd(orderStatus, Cardinality(OrderStatuses) + 1) <= 3
  /\ orderStatus \in {"delivered", "cancelled", "pending", "requested"} =>
       getNextStatus(orderStatus) = NoStatus

C30_Witness ==
  /\ ev = [op |-> "updateOrderStatus", code |-> "accepted", gate |-> "checking"]
  /\ statusRequest = [from |-> "accepted", to |-> "picked"]
  /\ StepsToEnd(orderStatus, Cardinality(OrderStatuses) + 1) = 3
  /\ statusPosts = 1
====
